---------------------------- MODULE Spec2Model ----------------------------
(***************************************************************************)
(* Model of server.py: the capture -> recognize -> score pipeline behind   *)
(* the /process route (process_url, take_screenshot_and_extract_text,      *)
(* extract_text_from_image, analyze_text) and the two export routes        *)
(* (download_excel, download_pdf) that share the artifacts directory.      *)
(*                                                                         *)
(* Strings are sequences of characters (one-character TLA+ strings);       *)
(* slash-free literals of the source ("static", "post_", ".png", ...) are  *)
(* kept as single blocks.  Each element of Inv is one request to /process, *)
(* served by its own thread of the Flask server; a step of the model is    *)
(* one statement (or one run of statements that touch only locals) of one  *)
(* request.                                                                *)
(***************************************************************************)
EXTENDS Integers, Sequences, FiniteSets, TLC

\* Number of /process requests in a behaviour.
NumInv == 2
\* Longest URL handed to the identifier derivation on its own.
MaxUrlLen == 4

Inv == 1..NumInv

\* request.form.get / request.args.get return None for a missing field.
None == <<"None">>

\* Python truthiness of an optional string: None and "" are falsy.
Truthy(s) == s # None /\ s # <<>>

\* The instagram_url form values tried: empty, no slash at all, and two
\* posts with a trailing slash.
URLS ==
    { <<>>, <<"a">>, <<"p", "/", "a", "/">>, <<"p", "/", "b", "/">> }

FORM_URLS == URLS \cup {None}

\* The characters of a URL that matter to split('/').
UrlChars == {"/", "a", "b"}

RECURSIVE SeqsUpTo(_, _)
SeqsUpTo(S, n) ==
    IF n = 0 THEN {<<>>}
    ELSE LET shorter == SeqsUpTo(S, n - 1)
         IN  shorter \cup {Append(q, c) : q \in shorter, c \in S}

\* The non-empty URLs the identifier derivation is tried on.
ID_URLS == SeqsUpTo(UrlChars, MaxUrlLen) \ {<<>>}

\* What pytesseract.image_to_string can return: nothing, whitespace only,
\* a glyph, a glyph inside whitespace.
RAWS == { <<>>, <<" ">>, <<"x">>, <<" ", "x", " ">> }

\* The text query parameter of an export request.
EXPORT_TEXTS == {None, <<>>, <<"x">>, <<"y">>}

\* TextBlob polarity, in [-1.0, 1.0].
SCORES == {-1, 0, 1}

IsSpace(c) == c = " "

\* str.strip(): drop leading and trailing whitespace.
RECURSIVE LStrip(_)
LStrip(s) ==
    IF s = <<>> THEN <<>>
    ELSE IF IsSpace(Head(s)) THEN LStrip(Tail(s)) ELSE s

RECURSIVE RStrip(_)
RStrip(s) ==
    IF s = <<>> THEN <<>>
    ELSE IF IsSpace(s[Len(s)]) THEN RStrip(SubSeq(s, 1, Len(s) - 1)) ELSE s

Strip(s) == RStrip(LStrip(s))

\* str.split('/'): the list of maximal slash-free pieces, empty ones included.
RECURSIVE Split(_)
Split(s) ==
    IF s = <<>> THEN << <<>> >>
    ELSE LET rest == Split(Tail(s))
         IN  IF Head(s) = "/" THEN << <<>> >> \o rest
             ELSE << <<Head(s)>> \o rest[1] >> \o Tail(rest)

\* screenshot_dir = "static/images"
screenshot_dir == <<"static", "/", "images">>

\* os.path.join(dir, name) for a name that does not start with a slash.
PathJoin(dir, name) == dir \o <<"/">> \o name

\* url.split('/')[-2] raises IndexError when the list has one element.
HasPostId(u) == Len(Split(u)) >= 2
post_id(u) == Split(u)[Len(Split(u)) - 1]

\* os.path.join(screenshot_dir, f"post_{post_id}.png")
screenshot_path(u) ==
    PathJoin(screenshot_dir, <<"post_">> \o post_id(u) \o <<".png">>)

excel_path == PathJoin(screenshot_dir, <<"extracted_data.xlsx">>)
pdf_path == PathJoin(screenshot_dir, <<"extracted_data_reportlab.pdf">>)

\* screenshot_path.split('/')[-1]
Basename(p) == Split(p)[Len(Split(p))]

VARIABLES
    pc,         \* pc[i]: the statement request i executes next
    url,        \* url[i]: instagram_url of request i
    session,    \* session[i]: "none", "live", "closed" (browser.close()), "stopped"
    exc,        \* exc[i]: the exception propagating in request i, or "none"
    img,        \* img[i]: the PIL image held by extract_text_from_image
    text,       \* text[i]: extracted_text
    sentiment,  \* sentiment[i]: list holding the polarity once computed
    shot,       \* shot[i]: request i has written its screenshot file
    before,     \* before[i]: the requests already answered when request i arrived
    response,   \* response[i]: what process_url sent back
    files,      \* the files under static/images: path -> content
    expResp,    \* the most recent export request and what it sent back
    idUrl,      \* a URL given to the identifier derivation on its own
    idOut       \* what url.split('/')[-2] gave for idUrl

idVars == <<idUrl, idOut>>

vars ==
    <<pc, url, session, exc, img, text, sentiment, shot, before, response, files, expResp,
      idUrl, idOut>>

NoImg == [src |-> 0, ops |-> <<>>]
NoResponse ==
    [page |-> "none", flash |-> "", image |-> <<>>, text |-> None, sentiment |-> <<>>]
NoExpResp == [kind |-> "none", text |-> None, page |-> "none", flash |-> "", file |-> <<>>]

NoId == [state |-> "none", id |-> <<>>]

\* The server after start-up: no request yet, an empty artifacts directory.
InitServer ==
    /\ pc = [i \in Inv |-> "Idle"]
    /\ url = [i \in Inv |-> None]
    /\ session = [i \in Inv |-> "none"]
    /\ exc = [i \in Inv |-> "none"]
    /\ img = [i \in Inv |-> NoImg]
    /\ text = [i \in Inv |-> None]
    /\ sentiment = [i \in Inv |-> <<>>]
    /\ shot = [i \in Inv |-> FALSE]
    /\ before = [i \in Inv |-> {}]
    /\ response = [i \in Inv |-> NoResponse]
    /\ files = <<>>
    /\ expResp = NoExpResp

Init ==
    /\ InitServer
    /\ idUrl = <<>>
    /\ idOut = NoId

\* Mutant of WriteFile: exclusive creation, an existing file is kept.
WriteFileExclusive(fs, path, content) ==
    [p \in DOMAIN fs \cup {path} |-> IF p \in DOMAIN fs THEN fs[p] ELSE content]

\* Writing a file creates it or replaces its content.
WriteFile(fs, path, content) ==
    [p \in DOMAIN fs \cup {path} |-> IF p = path THEN content ELSE fs[p]]

\* The image page.screenshot of request i produces.
PngOf(i) == [kind |-> "png", by |-> i, data |-> <<>>]
\* The document an export writes for text t.
ExportOf(k, t) == [kind |-> k, by |-> 0, data |-> t]

\* An exception of request i propagates to `to`.
Raise(i, cause, to) ==
    /\ exc' = [exc EXCEPT ![i] = cause]
    /\ pc' = [pc EXCEPT ![i] = to]

Goes(i, to) == pc' = [pc EXCEPT ![i] = to]

\* Mutant of ProcessUrl: the pipeline is called without the test of the URL.
ProcessUrlUnchecked(i) ==
    /\ pc[i] = "Idle"
    /\ before' = [before EXCEPT ![i] = {j \in Inv : pc[j] = "returned"}]
    /\ \E u \in FORM_URLS : url' = [url EXCEPT ![i] = u]
    /\ Goes(i, "launch")
    /\ UNCHANGED idVars
    /\ UNCHANGED <<session, exc, img, text, sentiment, shot, response, files, expResp>>

\* process_url up to the call of the pipeline.
ProcessUrl(i) ==
    /\ pc[i] = "Idle"
    /\ before' = [before EXCEPT ![i] = {j \in Inv : pc[j] = "returned"}]
    /\ \E u \in FORM_URLS :
        /\ url' = [url EXCEPT ![i] = u]
        /\ IF ~Truthy(u)
           THEN /\ response' = [response EXCEPT ![i] =
                       [NoResponse EXCEPT !.page = "index",
                                          !.flash = "Please provide an Instagram post URL."]]
                /\ Goes(i, "returned")
           ELSE /\ Goes(i, "launch")
                /\ UNCHANGED response
    /\ UNCHANGED idVars
    /\ UNCHANGED <<session, exc, img, text, sentiment, shot, files, expResp>>

\* Mutant of PlaywrightStop: leaving the with block leaves the browser running.
PlaywrightStopLeaks(s) == s

\* Leaving the with block stops the Playwright driver, and with it a browser
\* that browser.close() never closed.
PlaywrightStop(s) == IF s = "live" THEN "stopped" ELSE s

\* What process_url renders for the returned tuple.
ResultPage(i) ==
    [page |-> "result", flash |-> "",
     image |-> Basename(screenshot_path(url[i])),
     text |-> text[i], sentiment |-> sentiment[i]]

\* Mutant of ErrorPage: the result page is rendered although the call failed.
ErrorPageAsResult(e) == [NoResponse EXCEPT !.page = "result", !.flash = e]

\* What process_url sends back for a caught exception: flash and redirect.
ErrorPage(e) == [NoResponse EXCEPT !.page = "index", !.flash = e]

\* An exception raised before the try block: it leaves the with block and
\* reaches the except clause of process_url; s is the session at that point.
FailOutsideTry(i, e, s) ==
    /\ session' = [session EXCEPT ![i] = PlaywrightStop(s)]
    /\ response' = [response EXCEPT ![i] = ErrorPage(e)]
    /\ Goes(i, "returned")
    /\ UNCHANGED exc

\* with sync_playwright(); chromium.launch; new_context; new_page.
Launch(i) ==
    /\ pc[i] = "launch"
    /\ \/ FailOutsideTry(i, "LaunchError", "none")
       \/ FailOutsideTry(i, "ContextError", "live")
       \/ /\ session' = [session EXCEPT ![i] = "live"]
          /\ Goes(i, "goto")
          /\ UNCHANGED <<exc, response>>
    /\ UNCHANGED idVars
    /\ UNCHANGED <<url, img, text, sentiment, shot, before, files, expResp>>

\* page.goto(url), outside the try block.
Goto(i) ==
    /\ pc[i] = "goto"
    /\ \/ FailOutsideTry(i, "NavigationError", session[i])
       \/ /\ Goes(i, "wait_for_selector")
          /\ UNCHANGED <<exc, session, response>>
    /\ UNCHANGED idVars
    /\ UNCHANGED <<url, img, text, sentiment, shot, before, files, expResp>>

\* Mutant of WaitForSelector: the screenshot is written before the wait, so a
\* timeout leaves it behind.
WaitForSelectorAfterShot(i) ==
    /\ pc[i] = "wait_for_selector"
    /\ \/ /\ Raise(i, "TimeoutError", "finally")
          /\ IF HasPostId(url[i])
             THEN /\ files' = WriteFile(files, screenshot_path(url[i]), PngOf(i))
                  /\ shot' = [shot EXCEPT ![i] = TRUE]
             ELSE UNCHANGED <<files, shot>>
       \/ Goes(i, "post_id") /\ UNCHANGED <<exc, files, shot>>
    /\ UNCHANGED idVars
    /\ UNCHANGED <<url, session, img, text, sentiment, before, response, expResp>>

\* page.wait_for_selector("article", timeout=10000)
WaitForSelector(i) ==
    /\ pc[i] = "wait_for_selector"
    /\ \/ Raise(i, "TimeoutError", "finally")
       \/ Goes(i, "post_id") /\ UNCHANGED exc
    /\ UNCHANGED idVars
    /\ UNCHANGED <<url, session, img, text, sentiment, shot, before, response, files, expResp>>

\* Mutant of PostId: the screenshot follows without the settle delay.
PostIdNoSettle(i) ==
    /\ pc[i] = "post_id"
    /\ IF HasPostId(url[i])
       THEN Goes(i, "screenshot") /\ UNCHANGED exc
       ELSE Raise(i, "IndexError", "finally")
    /\ UNCHANGED idVars
    /\ UNCHANGED <<url, session, img, text, sentiment, shot, before, response, files, expResp>>

\* post_id = url.split('/')[-2]
PostId(i) ==
    /\ pc[i] = "post_id"
    /\ IF HasPostId(url[i])
       THEN Goes(i, "wait_for_timeout") /\ UNCHANGED exc
       ELSE Raise(i, "IndexError", "finally")
    /\ UNCHANGED idVars
    /\ UNCHANGED <<url, session, img, text, sentiment, shot, before, response, files, expResp>>

\* page.wait_for_timeout(5000)
WaitForTimeout(i) ==
    /\ pc[i] = "wait_for_timeout"
    /\ Goes(i, "screenshot")
    /\ UNCHANGED idVars
    /\ UNCHANGED <<url, session, exc, img, text, sentiment, shot, before, response, files,
                   expResp>>

\* Mutant of Screenshot: the file name also carries the request, so every
\* request leaves a file of its own.
ScreenshotPerRequest(i) ==
    /\ pc[i] = "screenshot"
    /\ \/ /\ Raise(i, "ScreenshotError", "finally")
          /\ UNCHANGED <<files, shot>>
       \/ /\ files' = WriteFile(files,
                         PathJoin(screenshot_dir,
                                  <<"post_">> \o post_id(url[i]) \o <<"_", ToString(i), ".png">>),
                         PngOf(i))
          /\ shot' = [shot EXCEPT ![i] = TRUE]
          /\ Goes(i, "image_open")
          /\ UNCHANGED exc
    /\ UNCHANGED idVars
    /\ UNCHANGED <<url, session, img, text, sentiment, before, response, expResp>>

\* page.screenshot(path=screenshot_path)
Screenshot(i) ==
    /\ pc[i] = "screenshot"
    /\ \/ /\ Raise(i, "ScreenshotError", "finally")
          /\ UNCHANGED <<files, shot>>
       \/ /\ files' = WriteFile(files, screenshot_path(url[i]), PngOf(i))
          /\ shot' = [shot EXCEPT ![i] = TRUE]
          /\ Goes(i, "image_open")
          /\ UNCHANGED exc
    /\ UNCHANGED idVars
    /\ UNCHANGED <<url, session, img, text, sentiment, before, response, expResp>>

\* Mutant of ImageOpen: some image of the directory is opened, whatever its path.
ImageOpenAnyFile(i) ==
    /\ pc[i] = "image_open"
    /\ \/ Raise(i, "ImageDecodeError", "finally") /\ UNCHANGED img
       \/ /\ \E p \in DOMAIN files :
                /\ files[p].kind = "png"
                /\ img' = [img EXCEPT ![i] = [src |-> files[p].by, ops |-> <<>>]]
          /\ Goes(i, "grayscale")
          /\ UNCHANGED exc
    /\ UNCHANGED idVars
    /\ UNCHANGED <<url, session, text, sentiment, shot, before, response, files, expResp>>

\* img = Image.open(image_path)
ImageOpen(i) ==
    /\ pc[i] = "image_open"
    /\ \/ Raise(i, "ImageDecodeError", "finally") /\ UNCHANGED img
       \/ /\ screenshot_path(url[i]) \in DOMAIN files
          /\ img' = [img EXCEPT ![i] =
                        [src |-> files[screenshot_path(url[i])].by, ops |-> <<>>]]
          /\ Goes(i, "grayscale")
          /\ UNCHANGED exc
    /\ UNCHANGED idVars
    /\ UNCHANGED <<url, session, text, sentiment, shot, before, response, files, expResp>>

\* Mutant of Grayscale: the contrast is enhanced on the colour image first.
GrayscaleAfterContrast(i) ==
    /\ pc[i] = "grayscale"
    /\ img' = [img EXCEPT ![i].ops = Append(@, "contrast")]
    /\ Goes(i, "contrast")
    /\ UNCHANGED idVars
    /\ UNCHANGED <<url, session, exc, text, sentiment, shot, before, response, files, expResp>>

\* img = ImageOps.grayscale(img)
Grayscale(i) ==
    /\ pc[i] = "grayscale"
    /\ img' = [img EXCEPT ![i].ops = Append(@, "grayscale")]
    /\ Goes(i, "contrast")
    /\ UNCHANGED idVars
    /\ UNCHANGED <<url, session, exc, text, sentiment, shot, before, response, files, expResp>>

\* img = ImageEnhance.Contrast(img).enhance(2)
Contrast(i) ==
    /\ pc[i] = "contrast"
    /\ img' = [img EXCEPT ![i].ops = Append(@, "contrast")]
    /\ Goes(i, "ocr")
    /\ UNCHANGED idVars
    /\ UNCHANGED <<url, session, exc, text, sentiment, shot, before, response, files, expResp>>

\* text = pytesseract.image_to_string(img, config); return text.strip()
Ocr(i) ==
    /\ pc[i] = "ocr"
    /\ img' = [img EXCEPT ![i] = NoImg]
    /\ \/ Raise(i, "RecognitionError", "finally") /\ UNCHANGED text
       \/ /\ \E raw \in RAWS : text' = [text EXCEPT ![i] = Strip(raw)]
          /\ Goes(i, "check_text")
          /\ UNCHANGED exc
    /\ UNCHANGED idVars
    /\ UNCHANGED <<url, session, sentiment, shot, before, response, files, expResp>>

\* Mutant of CheckText: the text is scored whether or not it is empty.
CheckTextUnguarded(i) ==
    /\ pc[i] = "check_text"
    /\ Goes(i, "analyze")
    /\ UNCHANGED idVars
    /\ UNCHANGED <<url, session, exc, img, text, sentiment, shot, before, response, files,
                   expResp>>

\* Mutant of CheckText: on empty text the capture is tried again.
CheckTextRetry(i) ==
    /\ pc[i] = "check_text"
    /\ IF Truthy(text[i]) THEN Goes(i, "analyze") ELSE Goes(i, "wait_for_timeout")
    /\ UNCHANGED idVars
    /\ UNCHANGED <<url, session, exc, img, text, sentiment, shot, before, response, files,
                   expResp>>

\* if extracted_text: ... else: raise Exception("No text found in the screenshot!")
CheckText(i) ==
    /\ pc[i] = "check_text"
    /\ IF Truthy(text[i])
       THEN Goes(i, "analyze") /\ UNCHANGED exc
       ELSE Raise(i, "NoTextFound", "finally")
    /\ UNCHANGED idVars
    /\ UNCHANGED <<url, session, img, text, sentiment, shot, before, response, files, expResp>>

\* sentiment = analyze_text(extracted_text); return extracted_text, sentiment, screenshot_path
AnalyzeText(i) ==
    /\ pc[i] = "analyze"
    /\ \E s \in SCORES : sentiment' = [sentiment EXCEPT ![i] = <<s>>]
    /\ Goes(i, "finally")
    /\ UNCHANGED idVars
    /\ UNCHANGED <<url, session, exc, img, text, shot, before, response, files, expResp>>

\* Mutant of Finally: a failure removes the screenshot the request wrote.
FinallyRollback(i) ==
    /\ pc[i] = "finally"
    /\ session' = [session EXCEPT ![i] = PlaywrightStop("closed")]
    /\ response' = [response EXCEPT ![i] =
                        IF exc[i] = "none" THEN ResultPage(i) ELSE ErrorPage(exc[i])]
    /\ files' = IF exc[i] # "none" /\ shot[i]
                THEN [p \in DOMAIN files \ {screenshot_path(url[i])} |-> files[p]]
                ELSE files
    /\ exc' = [exc EXCEPT ![i] = "none"]
    /\ text' = [text EXCEPT ![i] = None]
    /\ sentiment' = [sentiment EXCEPT ![i] = <<>>]
    /\ Goes(i, "returned")
    /\ UNCHANGED idVars
    /\ UNCHANGED <<url, img, shot, before, expResp>>

\* Mutant of Finally: the finally clause does not close the browser.
FinallyNoClose(i) ==
    /\ pc[i] = "finally"
    /\ session' = [session EXCEPT ![i] = PlaywrightStop(session[i])]
    /\ response' = [response EXCEPT ![i] =
                        IF exc[i] = "none" THEN ResultPage(i) ELSE ErrorPage(exc[i])]
    /\ exc' = [exc EXCEPT ![i] = "none"]
    /\ text' = [text EXCEPT ![i] = None]
    /\ sentiment' = [sentiment EXCEPT ![i] = <<>>]
    /\ Goes(i, "returned")
    /\ UNCHANGED idVars
    /\ UNCHANGED <<url, img, shot, before, files, expResp>>

\* except: raise e; finally: browser.close(); the with block is left; then
\* process_url renders result.html, or flashes the cause and redirects.
Finally(i) ==
    /\ pc[i] = "finally"
    /\ session' = [session EXCEPT ![i] = PlaywrightStop("closed")]
    /\ response' = [response EXCEPT ![i] =
                        IF exc[i] = "none" THEN ResultPage(i) ELSE ErrorPage(exc[i])]
    /\ exc' = [exc EXCEPT ![i] = "none"]
    /\ text' = [text EXCEPT ![i] = None]
    /\ sentiment' = [sentiment EXCEPT ![i] = <<>>]
    /\ Goes(i, "returned")
    /\ UNCHANGED idVars
    /\ UNCHANGED <<url, img, shot, before, files, expResp>>

\* Mutant of DownloadExcel: the text is serialized without the emptiness test.
DownloadExcelUnchecked(t) ==
    /\ files' = WriteFile(files, excel_path, ExportOf("xlsx", t))
    /\ expResp' = [kind |-> "xlsx", text |-> t, page |-> "file",
                   file |-> excel_path, flash |-> ""]
    /\ UNCHANGED idVars
    /\ UNCHANGED <<pc, url, session, exc, img, text, sentiment, shot, before, response>>

\* download_excel
DownloadExcel(t) ==
    /\ IF ~Truthy(t)
       THEN /\ expResp' = [kind |-> "xlsx", text |-> t, page |-> "index", file |-> <<>>,
                           flash |-> "No text available for generating Excel."]
            /\ UNCHANGED files
       ELSE /\ files' = WriteFile(files, excel_path, ExportOf("xlsx", t))
            /\ expResp' = [kind |-> "xlsx", text |-> t, page |-> "file",
                           file |-> excel_path, flash |-> ""]
    /\ UNCHANGED idVars
    /\ UNCHANGED <<pc, url, session, exc, img, text, sentiment, shot, before, response>>

\* download_pdf
DownloadPdf(t) ==
    /\ IF ~Truthy(t)
       THEN /\ expResp' = [kind |-> "pdf", text |-> t, page |-> "index", file |-> <<>>,
                           flash |-> "No text available for generating PDF."]
            /\ UNCHANGED files
       ELSE \/ /\ files' = WriteFile(files, pdf_path, ExportOf("pdf", t))
               /\ expResp' = [kind |-> "pdf", text |-> t, page |-> "file",
                              file |-> pdf_path, flash |-> ""]
            \/ /\ expResp' = [kind |-> "pdf", text |-> t, page |-> "index",
                              file |-> <<>>, flash |-> "Error generating PDF"]
               /\ UNCHANGED files
    /\ UNCHANGED idVars
    /\ UNCHANGED <<pc, url, session, exc, img, text, sentiment, shot, before, response>>

\* The requests to /process alone.
NextProcess ==
    \/ \E i \in Inv : ProcessUrl(i)
    \/ \E i \in Inv : Launch(i)
    \/ \E i \in Inv : Goto(i)
    \/ \E i \in Inv : WaitForSelector(i)
    \/ \E i \in Inv : PostId(i)
    \/ \E i \in Inv : WaitForTimeout(i)
    \/ \E i \in Inv : Screenshot(i)
    \/ \E i \in Inv : ImageOpen(i)
    \/ \E i \in Inv : Grayscale(i)
    \/ \E i \in Inv : Contrast(i)
    \/ \E i \in Inv : Ocr(i)
    \/ \E i \in Inv : CheckText(i)
    \/ \E i \in Inv : AnalyzeText(i)
    \/ \E i \in Inv : Finally(i)

\* The export requests, which write excel_path and pdf_path only.
NextExport ==
    \/ \E t \in EXPORT_TEXTS : DownloadExcel(t)
    \/ \E t \in EXPORT_TEXTS : DownloadPdf(t)

Next == NextProcess \/ NextExport

\* The whole server: requests to /process and export requests, interleaved.
Spec == Init /\ [][Next]_vars

\* The /process route on its own, for the properties of the pipeline.
SpecProcess == Init /\ [][NextProcess]_vars

\* post_id = url.split('/')[-2], applied to idUrl on its own.
DerivePostId ==
    /\ idOut.state = "none"
    /\ idOut' = IF HasPostId(idUrl)
                THEN [state |-> "id", id |-> post_id(idUrl)]
                ELSE [state |-> "IndexError", id |-> <<>>]
    /\ UNCHANGED <<pc, url, session, exc, img, text, sentiment, shot, before, response,
                   files, expResp, idUrl>>

InitPostId ==
    /\ InitServer
    /\ idUrl \in ID_URLS
    /\ idOut = NoId

NextPostId == DerivePostId

\* The identifier derivation as a function of the URL alone.
SpecPostId == InitPostId /\ [][NextPostId]_vars

-----------------------------------------------------------------------------
\* The stage of the orchestrator's state machine request i is in.
Stage(i) ==
    CASE pc[i] = "Idle" -> "Idle"
      [] pc[i] \in {"launch", "goto", "wait_for_selector", "post_id",
                    "wait_for_timeout", "screenshot"} -> "Capturing"
      [] pc[i] \in {"image_open", "grayscale", "contrast"} -> "Preprocessing"
      [] pc[i] \in {"ocr", "check_text"} -> "Recognizing"
      [] pc[i] = "analyze" -> "Scoring"
      [] pc[i] = "finally" -> IF exc[i] = "none" THEN "Done" ELSE "Failed"
      [] pc[i] = "returned" ->
            IF response[i].page = "result" THEN "Done"
            ELSE IF Truthy(url[i]) THEN "Failed" ELSE "Idle"

\* Request i has come back to process_url from the pipeline.
Returned(i) == pc[i] = "returned" /\ Truthy(url[i])

-----------------------------------------------------------------------------
\* C1: on every exit path taken after the browser was launched, browser.close()
\* has been executed by the time control is back in process_url.
C1_ClosedOnEveryExit ==
    \A i \in Inv : (Returned(i) /\ session[i] # "none") => session[i] = "closed"

\* C2: analyze_text runs, and a score is returned, only for non-empty extracted
\* text; empty text ends the request in NoTextFound and never reaches Scoring;
\* every result page carries non-empty text and a score.
C2_ScoreOnlyForText ==
    \A i \in Inv :
        /\ Stage(i) \in {"Scoring", "Done"} /\ pc[i] # "returned" => Truthy(text[i])
        /\ sentiment[i] # <<>> => Truthy(text[i])
        /\ text[i] = <<>> =>
              \/ pc[i] = "check_text"
              \/ pc[i] = "finally" /\ exc[i] = "NoTextFound"
        /\ response[i].page = "result" =>
              Truthy(response[i].text) /\ response[i].sentiment # <<>>
        /\ response[i].sentiment # <<>> => response[i].page = "result"

C2_Witness ==
    \E i, j \in Inv :
        /\ response[i].page = "result"
        /\ pc[j] = "finally" /\ text[j] = <<>>

\* C3: a failed stage is followed by no later stage of that request, and
\* process_url gets one cause and no part of a result: the response is the
\* index page with the cause flashed and no image, text or score.
C3_FailureAborts ==
    /\ [][\A i \in Inv :
            /\ exc[i] # "none" /\ pc'[i] # pc[i] =>
                  /\ pc'[i] = "returned"
                  /\ response'[i].flash = exc[i]
                  /\ shot'[i] = shot[i] /\ img'[i] = img[i] /\ files' = files
            /\ pc'[i] = "returned" /\ pc[i] # "returned"
                  /\ ~(pc[i] = "finally" /\ exc[i] = "none") =>
                  /\ response'[i].page = "index"
                  /\ response'[i].flash # ""
                  /\ response'[i].image = <<>>
                  /\ response'[i].text = None
                  /\ response'[i].sentiment = <<>>]_vars
    /\ [](\A i \in Inv : pc[i] = "returned" => response[i].page \in {"index", "result"})

C3_Witness ==
    \E i \in Inv :
        /\ Returned(i) /\ shot[i]
        /\ response[i].page = "index" /\ response[i].flash = "NoTextFound"

\* Request i ran into the content-ready timeout.
TimedOut(i) ==
    \/ pc[i] = "finally" /\ exc[i] = "TimeoutError"
    \/ pc[i] = "returned" /\ response[i].flash = "TimeoutError"

\* Request j arrived after request i had been answered.
Sequential(i, j) == i \in before[j]

\* C4 as stated: when a timed-out request returns, no file is at its artifact
\* path, whatever requests came before it (here: all of them answered before
\* it arrived).
C4_NoArtifactAfterTimeout ==
    \A i \in Inv :
        ( /\ pc[i] = "returned" /\ TimedOut(i) /\ HasPostId(url[i])
          /\ \A j \in Inv \ {i} : pc[j] = "Idle" \/ Sequential(j, i) )
        => screenshot_path(url[i]) \notin DOMAIN files

\* C4 amended: a timed-out request fails with the timeout as its cause and has
\* written no screenshot; a file at its artifact path is the capture of another
\* request for the same identifier.
C4_TimeoutWritesNothing ==
    \A i \in Inv :
        TimedOut(i) =>
            /\ ~shot[i]
            /\ Stage(i) = "Failed"
            /\ pc[i] = "returned" => response[i].page = "index"
            /\ HasPostId(url[i]) /\ screenshot_path(url[i]) \in DOMAIN files =>
                  \E j \in Inv \ {i} :
                      /\ shot[j]
                      /\ screenshot_path(url[j]) = screenshot_path(url[i])
                      /\ files[screenshot_path(url[i])].by = j

C4_Witness ==
    \E i \in Inv :
        /\ pc[i] = "returned" /\ TimedOut(i) /\ HasPostId(url[i])
        /\ screenshot_path(url[i]) \notin DOMAIN files

\* C5: once a request has written its screenshot, no step by which it fails or
\* winds down after a failure changes any file: the artifact stays on disk with
\* the content it had.
C5_ArtifactRetained ==
    [][\A i \in Inv :
          shot[i] /\ pc'[i] # pc[i] /\ Stage(i)' = "Failed" =>
              /\ files' = files
              /\ screenshot_path(url[i]) \in DOMAIN files']_vars

C5_Witness ==
    \E i \in Inv :
        /\ shot[i] /\ pc[i] = "returned" /\ response[i].page = "index"
        /\ files[screenshot_path(url[i])].by = i

\* C6: of two sequential requests with the same URL that both captured, the
\* file at their common path holds the capture of the second one, never the
\* first one's (or that of a further request for the same path).
C6_LastWriteWins ==
    \A i, j \in Inv :
        Sequential(i, j) /\ url[i] = url[j] /\ shot[i] /\ shot[j] =>
            LET f == files[screenshot_path(url[j])]
            IN  /\ f.kind = "png"
                /\ f.by # i
                /\ \/ f.by = j
                   \/ \E k \in Inv \ {i, j} :
                         /\ shot[k] /\ f.by = k
                         /\ screenshot_path(url[k]) = screenshot_path(url[j])

C6_Witness ==
    \E i, j \in Inv :
        /\ Sequential(i, j) /\ url[i] = url[j] /\ shot[i] /\ shot[j]
        /\ pc[j] = "returned"
        /\ files[screenshot_path(url[j])].by = j

\* The stage changes the orchestrator's state machine allows.
StageOrder ==
    { <<"Idle", "Capturing">>, <<"Capturing", "Preprocessing">>,
      <<"Preprocessing", "Recognizing">>, <<"Recognizing", "Scoring">>,
      <<"Scoring", "Done">>,
      <<"Capturing", "Failed">>, <<"Preprocessing", "Failed">>,
      <<"Recognizing", "Failed">> }

\* C7: a request changes stage only forward along Idle, Capturing,
\* Preprocessing, Recognizing, Scoring, Done, or into Failed; no stage is
\* entered twice, and nothing leaves Done or Failed.
C7_StagesInOrder ==
    [][\A i \in Inv :
          Stage(i)' # Stage(i) => <<Stage(i), Stage(i)'>> \in StageOrder]_vars

C7_Witness ==
    \E i, j \in Inv :
        /\ pc[i] = "returned" /\ Stage(i) = "Done"
        /\ pc[j] = "returned" /\ Stage(j) = "Failed" /\ shot[j]

\* C8: an export request with empty or missing text is answered with a flashed
\* error and the index page, and leaves every file as it was.
C8_EmptyExportRejected ==
    /\ [](expResp.kind # "none" /\ ~Truthy(expResp.text) =>
              /\ expResp.page = "index"
              /\ expResp.flash # ""
              /\ expResp.file = <<>>)
    /\ [][expResp' # expResp /\ ~Truthy(expResp'.text) => files' = files]_vars

C8_Witness ==
    /\ expResp.kind = "pdf" /\ expResp.text = <<>>
    /\ pdf_path \in DOMAIN files
    /\ excel_path \notin DOMAIN files

\* The fixed path of each kind of export.
ExportPath(k) == IF k = "xlsx" THEN excel_path ELSE pdf_path

PngPaths == {p \in DOMAIN files : files[p].kind = "png"}
Captured == {i \in Inv : shot[i]}

C10_SessionOnlyWhileCapturing ==
    \A i \in Inv :
        Stage(i) \in {"Preprocessing", "Recognizing", "Scoring"} => session[i] # "live"

\* C10 amended: the session stays live through Preprocessing, Recognizing and
\* Scoring and is closed by browser.close() after the last of them, before
\* control is back in process_url.
C10_SessionClosedAfterStages ==
    \A i \in Inv :
        /\ Stage(i) \in {"Preprocessing", "Recognizing", "Scoring"} => session[i] = "live"
        /\ pc[i] = "finally" => session[i] = "live"
        /\ Returned(i) /\ shot[i] => session[i] = "closed"

C10_Witness ==
    \E i \in Inv :
        /\ Returned(i) /\ shot[i] /\ response[i].page = "result"
        /\ session[i] = "closed"

\* C11: within the capture the steps come in the order navigate, marker
\* observed, settle delay, screenshot: a screenshot is written only by the step
\* after the settle delay, which follows the marker, which follows navigation;
\* a timeout leads straight to the end of the request, with no settle delay and
\* no screenshot.
C11_CaptureOrder ==
    /\ [][\A i \in Inv :
            /\ pc'[i] # pc[i] =>
                  /\ pc'[i] = "wait_for_selector" => pc[i] = "goto"
                  /\ pc'[i] = "post_id" => pc[i] = "wait_for_selector"
                  /\ pc'[i] = "wait_for_timeout" => pc[i] = "post_id"
                  /\ pc'[i] = "screenshot" => pc[i] = "wait_for_timeout"
                  /\ pc[i] = "wait_for_selector" =>
                        \/ pc'[i] = "post_id" /\ exc'[i] = "none"
                        \/ pc'[i] = "finally" /\ exc'[i] = "TimeoutError"
            /\ shot'[i] # shot[i] =>
                  /\ pc[i] = "screenshot" /\ shot'[i]
                  /\ files'[screenshot_path(url[i])] = PngOf(i)
            /\ TimedOut(i) /\ pc'[i] # pc[i] =>
                  pc'[i] = "returned" /\ files' = files]_vars
    /\ [](\A i \in Inv : TimedOut(i) => ~shot[i])

C11_Witness ==
    \E i, j \in Inv :
        /\ shot[i] /\ pc[i] = "image_open"
        /\ pc[j] = "returned" /\ TimedOut(j) /\ url[j] = url[i]

EndsWithSlash(u) == u # <<>> /\ u[Len(u)] = "/"

\* The longest slash-free run at the end of s.
RECURSIVE LastSegment(_)
LastSegment(s) ==
    IF s = <<>> \/ s[Len(s)] = "/" THEN <<>>
    ELSE Append(LastSegment(SubSeq(s, 1, Len(s) - 1)), s[Len(s)])

\* The path segment in front of the trailing slash of u.
SegmentBeforeTrailingSlash(u) == LastSegment(SubSeq(u, 1, Len(u) - 1))

\* C12: the identifier derived from a URL is the path segment preceding the
\* URL's trailing slash.
C12_IdIsSegmentBeforeTrailingSlash ==
    idOut.state = "id" =>
        /\ EndsWithSlash(idUrl)
        /\ idOut.id = SegmentBeforeTrailingSlash(idUrl)

\* Requests i and j overlapped in time: neither was answered before the other
\* arrived.
Concurrent(i, j) == i # j /\ ~Sequential(i, j) /\ ~Sequential(j, i)

\* The state of request i that only request i touches.
Locals(i) ==
    <<pc[i], url[i], session[i], exc[i], img[i], text[i], sentiment[i], shot[i],
      before[i], response[i]>>

\* C13: concurrent requests share nothing but the files: a step of one request
\* leaves the state of every other request alone, every screenshot write puts
\* the writer's capture at its path, and nothing but a screenshot write changes
\* a file, so that the file holds the capture that was written last.
C13_ConcurrentLastWriteWins ==
    [][/\ \A i \in Inv :
            /\ pc'[i] # pc[i] => \A j \in Inv \ {i} : Locals(j)' = Locals(j)
            /\ shot'[i] /\ ~shot[i] =>
                  /\ files'[screenshot_path(url[i])] = PngOf(i)
                  /\ \A p \in DOMAIN files \ {screenshot_path(url[i])} :
                        files'[p] = files[p]
       /\ files' # files => \E i \in Inv : shot'[i] /\ ~shot[i]]_vars

C13_Witness ==
    \E i, j \in Inv :
        /\ Concurrent(i, j) /\ url[i] = url[j]
        /\ shot[i] /\ shot[j] /\ pc[i] = "returned" /\ pc[j] = "returned"
        /\ response[j].page = "result"
        /\ files[screenshot_path(url[i])].by = i

\* The statements between the launch of the browser and the end of the with
\* block.
InFlight(i) == pc[i] \notin {"Idle", "launch", "returned"}

\* C14: a live browser session belongs to a request that is in flight, no step
\* of a request touches the session of another one, and once a request has
\* ended its session is not live.
C14_SessionPerRequest ==
    /\ [](\A i \in Inv : session[i] = "live" => InFlight(i))
    /\ [][\A i \in Inv :
            pc'[i] # pc[i] => \A j \in Inv \ {i} : session'[j] = session[j]]_vars

C14_Witness ==
    \E i, j \in Inv :
        /\ pc[i] = "returned" /\ session[i] = "stopped"
        /\ pc[j] = "returned" /\ session[j] = "closed"

\* The statements of extract_text_from_image that hold the opened image.
HoldsImage(i) == pc[i] \in {"grayscale", "contrast", "ocr"}

\* C15 as stated: in every interleaving the image a request reads back is the
\* one its own page.screenshot wrote.
C15_ReadsOwnCapture ==
    \A i \in Inv : HoldsImage(i) => img[i].src = i

\* C15 amended: the image a request reads back is the one at its artifact path
\* when Image.open runs: its own capture, or the capture of a concurrent
\* request for the same path that wrote after it; never that of a request
\* answered before it arrived.
C15_ReadsLatestCapture ==
    \A i \in Inv :
        HoldsImage(i) =>
            \/ img[i].src = i
            \/ \E j \in Inv :
                  /\ img[i].src = j
                  /\ Concurrent(i, j) /\ shot[j]
                  /\ screenshot_path(url[j]) = screenshot_path(url[i])

C15_Witness ==
    \E i, j \in Inv :
        /\ i # j /\ pc[i] = "ocr" /\ img[i].src = j
        /\ pc[j] = "ocr" /\ img[j].src = j

\* C16: the image handed to the OCR engine is the opened image after one
\* grayscale conversion followed by one contrast enhancement.
C16_GrayscaleThenContrast ==
    \A i \in Inv :
        /\ pc[i] = "grayscale" => img[i].ops = <<>>
        /\ pc[i] = "contrast" => img[i].ops = <<"grayscale">>
        /\ pc[i] = "ocr" => img[i].ops = <<"grayscale", "contrast">>
        /\ img[i].ops # <<>> => pc[i] \in {"contrast", "ocr"}

C16_Witness ==
    \E i \in Inv : pc[i] = "ocr" /\ img[i].ops = <<"grayscale", "contrast">>

\* C17: a request without a URL, or with an empty one, is answered with the
\* index page and a message; it starts no browser session and changes no file.
C17_EmptyUrlRejected ==
    /\ [][\A i \in Inv :
            pc'[i] # pc[i] /\ url'[i] \in {None, <<>>} =>
                /\ pc[i] = "Idle" /\ pc'[i] = "returned"
                /\ response'[i].page = "index" /\ response'[i].flash # ""
                /\ session'[i] = "none"
                /\ files' = files]_vars
    /\ [](\A i \in Inv :
            url[i] \in {None, <<>>} =>
                /\ session[i] = "none" /\ ~shot[i]
                /\ pc[i] \in {"Idle", "returned"})

C17_Witness ==
    \E i, j \in Inv :
        /\ pc[i] = "returned" /\ url[i] = <<>> /\ response[i].page = "index"
        /\ Sequential(j, i) /\ shot[j]

=============================================================================
